---- MODULE Spec2Model ----
(***************************************************************************)
(* Model of semaphore_aggregation/src/snark/verifier_api.rs: the two       *)
(* public entry points verify_inside_snark_mock and verify_inside_snark,   *)
(* the EvmVerifier helpers they call, and the lazily initialised SRS.      *)
(*                                                                         *)
(* Each invocation is a thread of control with its own locals.  A panic    *)
(* (unwrap on Err/None, assert!, assert_satisfied) ends the invocation.    *)
(* Results of the external libraries (halo2_proofs, snark_verifier, the    *)
(* EVM executor) are opaque: a call that can fail fails or succeeds        *)
(* nondeterministically, and the artefact a successful call returns is a   *)
(* term built from the arguments the source passes to it.                  *)
(***************************************************************************)
EXTENDS Integers, Sequences, FiniteSets, TLC

\* ---------------------------------------------------------------- bounds
NumInvocations == 2
NumPublicInputs == 1
NumTau == 2

\* ------------------------------------------------------ program constants
SrsK == 23
OrchestratorMockK == 22
MockOnlyK == 23

Invocations == 1..NumInvocations
None == [tag |-> "none"]

\* ------------------------------------------------------------ input values
\* CommonData of the outer proof: the only part the pipeline looks at is the
\* number of public inputs.
CommonDatas == {[num_public_inputs |-> NumPublicInputs]}

Zeros(n) == [i \in 1..n |-> 0]

Bump(v, j) == [i \in DOMAIN v |-> IF i = j THEN v[i] + 1 ELSE v[i]]

\* ProofTuple = (proof_with_public_inputs, vd, cd).  The inner proof binds the
\* public inputs it was produced for; a valid triple carries exactly those,
\* a tampered one has one public input incremented by one.
ValidTuples ==
    {[proof |-> [binds |-> Zeros(cd.num_public_inputs)],
      public_inputs |-> Zeros(cd.num_public_inputs),
      cd |-> cd] : cd \in CommonDatas}

TamperedTuples ==
    {[proof |-> t.proof, public_inputs |-> Bump(t.public_inputs, j), cd |-> t.cd] :
        <<t, j>> \in {<<u, i>> \in ValidTuples \X (1..NumPublicInputs) :
                          i \in DOMAIN u.public_inputs}}

ProofTuples == ValidTuples \cup TamperedTuples

\* big_to_fe(fe_to_big(to_goldilocks(e))): the Fr element with the same
\* integer value as the Goldilocks element.
ToFr(e) == e

Instances(t) == [i \in DOMAIN t.public_inputs |-> ToFr(t.public_inputs[i])]

\* Verifier::new(proof, instances.clone(), vk, common_data, spec)
VerifierNew(t) == [proof |-> t.proof, instances |-> Instances(t), cd |-> t.cd]

\* ------------------------------------------------------ library artefacts
\* ParamsKZG::setup(k, OsRng)
ParamsKZGSetup(k, tau) == [k |-> k, tau |-> tau]

ParamsK(params) == params.k

\* keygen_vk(params, circuit): depends on the circuit's shape, not its witness
KeygenVk(params, circuit) == [params |-> params, shape |-> circuit.cd]

\* keygen_pk(params, vk, circuit)
KeygenPk(params, vk, circuit) == [params |-> params, vk |-> vk]

GetVk(pk) == pk.vk

\* create_proof(params, pk, &[circuit], &[instances], OsRng, transcript)
\* followed by transcript.finalize().  The blinding drawn from OsRng is not
\* tracked: the bytes are identified by what they were produced from.
CreateProofBytes(params, pk, circuit, instances) ==
    [params |-> params, pk |-> pk, witness |-> circuit.proof,
     instances |-> instances]

\* encode_calldata(&instances, &proof)
EncodeCalldata(instances, proof) == [instances |-> instances, proof |-> proof]

\* The inner verification circuit can be satisfied only on the public inputs
\* the inner proof binds.
CircuitSatisfiable(circuit, instances) ==
    /\ instances = <<circuit.instances>>
    /\ circuit.instances = circuit.proof.binds

\* MockProver::run(k, &circuit, instances): Err, or a prover whose
\* verification is satisfied or violated.  Beyond CircuitSatisfiable the
\* circuit is opaque, so every verdict is possible at every k.
MockOutcomes(k, circuit, instances) ==
    IF CircuitSatisfiable(circuit, instances)
    THEN {"satisfied", "violated", "error"}
    ELSE {"violated", "error"}

\* --------------------------------------------------------------- state
VARIABLES
    srs,              \* the lazy_static SRS cell: Once state, value, initialiser
    srsInits,         \* number of times gen_srs has been entered
    pc,               \* position of each invocation
    mode,             \* which entry point the invocation entered
    circuit,          \* local `circuit` / `verifier_circuit`
    instances,        \* local `instances`
    pk,               \* local `pk`
    deployment_code,  \* local `deployment_code`
    proof,            \* local `proof` (the value gen_proof returned)
    gp,               \* frame of the running gen_proof call
    ev,               \* frame of the running evm_verify call
    log               \* per invocation, the library calls made so far

vars == <<srs, srsInits, pc, mode, circuit, instances, pk, deployment_code,
          proof, gp, ev, log>>

Event(stage, args, out, ret) == [stage |-> stage, args |-> args, out |-> out, ret |-> ret]

\* ------------------------------------------------- gen_evm_verifier pieces
\* compile(params, vk, Config::kzg().with_num_instance(num_instance))
Compile(params, vk, num_instance) ==
    [params |-> params, vk |-> vk, num_instance |-> num_instance]

\* (params.get_g()[0], params.g2(), params.s_g2()).into()
SuccinctVk(params) == [g |-> params, g2 |-> params, s_g2 |-> params]

\* every library call recorded so far, as <<invocation, position>>
Calls == UNION {{<<p, i>> : i \in DOMAIN log[p]} : p \in Invocations}

At(c) == log[c[1]][c[2]]

Compilations == {c \in Calls : At(c).stage = "gen_evm_verifier" /\ At(c).out = "ok"}

EvmLoaderReused ==
    [i \in 1..Cardinality(Compilations) |-> [op |-> "stale", arg |-> None]]

\* EvmLoader::new::<Fq, Fr>(): a fresh loader with no code
EvmLoaderNew == <<>>

\* evm::compile_yul(&loader.yul_code())
CompileYul(code) == [yul |-> code]

\* body of gen_evm_verifier
GenEvmVerifierCode(params, vk, num_instance) ==
    LET protocol == Compile(params, vk, num_instance)
        svk == SuccinctVk(params)
        loader == EvmLoaderNew
        loaded == Append(loader, [op |-> "load_instances", arg |-> num_instance])
        read == Append(loaded, [op |-> "read_proof", arg |-> <<svk, protocol>>])
        verified == Append(read, [op |-> "verify", arg |-> <<svk, protocol>>])
    IN  CompileYul(verified)

\* ------------------------------------------------------ control skeleton
StatementsProveFirst ==
    <<"mock_prover", "gen_pk", "gen_proof", "gen_evm_verifier", "evm_verify">>

\* the statements of verify_inside_snark after the circuit is built
Statements ==
    <<"mock_prover", "gen_pk", "gen_evm_verifier", "gen_proof", "evm_verify">>

\* first step of a statement: gen_proof and evm_verify have several
Entry(stmt) ==
    CASE stmt = "gen_proof" -> "gp_mock_prover"
      [] stmt = "evm_verify" -> "encode_calldata"
      [] OTHER -> stmt

After(stmt) ==
    LET i == CHOOSE j \in DOMAIN Statements : Statements[j] = stmt
    IN  IF i = Len(Statements) THEN "done" ELSE Entry(Statements[i + 1])

MockModeContinues == Entry(Statements[2])

\* verify_inside_snark_mock returns after assert_satisfied
MockModeContinuation == "done"

OnPanicRetry(at) == at

\* a panic unwinds the invocation
OnPanic(at) == "aborted"

AssertSatisfiedOmitted(o) == o \in {"satisfied", "violated"}

\* MockProver::assert_satisfied
AssertSatisfied(o) == o = "satisfied"

AssertAcceptOmitted(o) == o \in {"accept", "reject"}

\* verify_proof(..).unwrap(), finalize, assert!(accept)
AssertAccept(o) == o = "accept"

SuccessIgnoresRevert(reverted) == TRUE

\* let success = !result.reverted
Success(reverted) == ~reverted

GenProofMockKFixed(params) == OrchestratorMockK

\* MockProver::run(params.k(), ..) inside gen_proof
GenProofMockK(params) == ParamsK(params)

NumInstanceOffByOne(insts) == <<Len(insts) + 1>>

\* vec![instances.len()]
NumInstance(insts) == <<Len(insts)>>

SrsNeedsInitEveryAccess(s) == s.state \in {"uninit", "ready"}

\* Once: the initialiser runs only while the cell has never been initialised
SrsNeedsInit(s) == s.state = "uninit"

\* statements whose arguments dereference SRS
SrsSites == {"gen_pk", "gen_evm_verifier", "gp_mock_prover"}

Init ==
    /\ srs = [state |-> "uninit", value |-> None, owner |-> 0]
    /\ srsInits = 0
    /\ pc = [p \in Invocations |-> "idle"]
    /\ mode = [p \in Invocations |-> "none"]
    /\ circuit = [p \in Invocations |-> None]
    /\ instances = [p \in Invocations |-> <<>>]
    /\ pk = [p \in Invocations |-> None]
    /\ deployment_code = [p \in Invocations |-> None]
    /\ proof = [p \in Invocations |-> None]
    /\ gp = [p \in Invocations |-> None]
    /\ ev = [p \in Invocations |-> None]
    /\ log = [p \in Invocations |-> <<>>]

Record(p, e) == log' = [log EXCEPT ![p] = Append(@, e)]

Goto(p, to) == pc' = [pc EXCEPT ![p] = to]

\* ------------------------------------------------------------ SRS cell
SrsInitStart(p) ==
    /\ pc[p] \in SrsSites
    /\ SrsNeedsInit(srs)
    /\ srs' = [state |-> "running", value |-> None, owner |-> p]
    /\ srsInits' = srsInits + 1
    /\ UNCHANGED <<pc, mode, circuit, instances, pk, deployment_code, proof, gp, ev, log>>

SrsInitFinish(p) ==
    /\ srs.state = "running"
    /\ srs.owner = p
    /\ \/ /\ \E tau \in 1..NumTau :
                srs' = [state |-> "ready", value |-> ParamsKZGSetup(SrsK, tau), owner |-> 0]
          /\ UNCHANGED <<pc, log>>
       \/ /\ srs' = [state |-> "poisoned", value |-> None, owner |-> 0]
          /\ Goto(p, OnPanic(pc[p]))
          /\ Record(p, Event("gen_srs", [k |-> SrsK], "panic", None))
    /\ UNCHANGED <<srsInits, mode, circuit, instances, pk, deployment_code, proof, gp, ev>>

SrsPoisoned(p) ==
    /\ pc[p] \in SrsSites
    /\ srs.state = "poisoned"
    /\ Goto(p, OnPanic(pc[p]))
    /\ Record(p, Event("SRS", [k |-> SrsK], "poisoned", None))
    /\ UNCHANGED <<srs, srsInits, mode, circuit, instances, pk, deployment_code, proof, gp, ev>>

\* ------------------------------------------- verify_inside_snark_mock
VerifyInsideSnarkMock(p, t) ==
    /\ pc[p] = "idle"
    /\ Goto(p, "mock_only")
    /\ mode' = [mode EXCEPT ![p] = "mock"]
    /\ circuit' = [circuit EXCEPT ![p] = VerifierNew(t)]
    /\ instances' = [instances EXCEPT ![p] = Instances(t)]
    /\ UNCHANGED <<srs, srsInits, pk, deployment_code, proof, gp, ev, log>>

MockOnly(p) ==
    /\ pc[p] = "mock_only"
    /\ \E o \in MockOutcomes(MockOnlyK, circuit[p], <<instances[p]>>) :
        /\ Record(p, Event("mock_prover",
                           [k |-> MockOnlyK, circuit |-> circuit[p],
                            instances |-> <<instances[p]>>], o, None))
        /\ \/ AssertSatisfied(o) /\ Goto(p, MockModeContinuation)
           \/ ~AssertSatisfied(o) /\ Goto(p, OnPanic(pc[p]))
    /\ UNCHANGED <<srs, srsInits, mode, circuit, instances, pk, deployment_code, proof, gp, ev>>

\* ------------------------------------------------ verify_inside_snark
VerifyInsideSnark(p, t) ==
    /\ pc[p] = "idle"
    /\ Goto(p, Entry(Statements[1]))
    /\ mode' = [mode EXCEPT ![p] = "full"]
    /\ circuit' = [circuit EXCEPT ![p] = VerifierNew(t)]
    /\ instances' = [instances EXCEPT ![p] = Instances(t)]
    /\ UNCHANGED <<srs, srsInits, pk, deployment_code, proof, gp, ev, log>>

MockProverRun(p) ==
    /\ pc[p] = "mock_prover"
    /\ \E o \in MockOutcomes(OrchestratorMockK, circuit[p], <<instances[p]>>) :
        /\ Record(p, Event("mock_prover",
                           [k |-> OrchestratorMockK, circuit |-> circuit[p],
                            instances |-> <<instances[p]>>], o, None))
        /\ \/ AssertSatisfied(o) /\ Goto(p, After("mock_prover"))
           \/ ~AssertSatisfied(o) /\ Goto(p, OnPanic(pc[p]))
    /\ UNCHANGED <<srs, srsInits, mode, circuit, instances, pk, deployment_code, proof, gp, ev>>

GenPk(p) ==
    /\ pc[p] = "gen_pk"
    /\ srs.state = "ready"
    /\ LET params == srs.value
           args == [params |-> params, circuit |-> circuit[p]]
           vk == KeygenVk(params, circuit[p])
           key == KeygenPk(params, vk, circuit[p])
       IN  \/ /\ pk' = [pk EXCEPT ![p] = key]
              /\ Record(p, Event("gen_pk", args, "ok", key))
              /\ Goto(p, After("gen_pk"))
           \/ /\ \E e \in {"keygen_vk_err", "keygen_pk_err"} :
                    Record(p, Event("gen_pk", args, e, None))
              /\ Goto(p, OnPanic(pc[p]))
              /\ UNCHANGED pk
    /\ UNCHANGED <<srs, srsInits, mode, circuit, instances, deployment_code, proof, gp, ev>>

GenEvmVerifier(p) ==
    /\ pc[p] = "gen_evm_verifier"
    /\ srs.state = "ready"
    /\ LET params == srs.value
           vk == GetVk(pk[p])
           num_instance == NumInstance(instances[p])
           args == [params |-> params, vk |-> vk, num_instance |-> num_instance]
           code == GenEvmVerifierCode(params, vk, num_instance)
       IN  \/ /\ deployment_code' = [deployment_code EXCEPT ![p] = code]
              /\ Record(p, Event("gen_evm_verifier", args, "ok", code))
              /\ Goto(p, After("gen_evm_verifier"))
           \/ /\ Record(p, Event("gen_evm_verifier", args, "err", None))
              /\ Goto(p, OnPanic(pc[p]))
              /\ UNCHANGED deployment_code
    /\ UNCHANGED <<srs, srsInits, mode, circuit, instances, pk, proof, gp, ev>>

\* ------------------------------------------------------------ gen_proof
GenProofMockProver(p) ==
    /\ pc[p] = "gp_mock_prover"
    /\ srs.state = "ready"
    /\ LET frame == [params |-> srs.value, pk |-> pk[p], circuit |-> circuit[p],
                     instances |-> <<instances[p]>>, proof |-> None]
           k == GenProofMockK(frame.params)
       IN  /\ gp' = [gp EXCEPT ![p] = frame]
           /\ \E o \in MockOutcomes(k, frame.circuit, frame.instances) :
                /\ Record(p, Event("mock_prover",
                                   [k |-> k, circuit |-> frame.circuit,
                                    instances |-> frame.instances], o, None))
                /\ \/ AssertSatisfied(o) /\ Goto(p, "create_proof")
                   \/ ~AssertSatisfied(o) /\ Goto(p, OnPanic(pc[p]))
    /\ UNCHANGED <<srs, srsInits, mode, circuit, instances, pk, deployment_code, proof, ev>>

CreateProof(p) ==
    /\ pc[p] = "create_proof"
    /\ LET f == gp[p]
           args == [params |-> f.params, pk |-> f.pk, circuit |-> f.circuit,
                    instances |-> f.instances]
           bytes == CreateProofBytes(f.params, f.pk, f.circuit, f.instances)
       IN  \/ /\ gp' = [gp EXCEPT ![p].proof = bytes]
              /\ Record(p, Event("create_proof", args, "ok", bytes))
              /\ Goto(p, "verify_proof")
           \/ /\ Record(p, Event("create_proof", args, "err", None))
              /\ Goto(p, OnPanic(pc[p]))
              /\ UNCHANGED gp
    /\ UNCHANGED <<srs, srsInits, mode, circuit, instances, pk, deployment_code, proof, ev>>

VerifyProof(p) ==
    /\ pc[p] = "verify_proof"
    /\ LET f == gp[p]
           args == [params |-> f.params, vk |-> GetVk(f.pk),
                    instances |-> f.instances, proof |-> f.proof]
       IN  \E o \in {"accept", "reject", "error"} :
            /\ Record(p, Event("verify_proof", args, o, None))
            /\ \/ /\ AssertAccept(o)
                  /\ proof' = [proof EXCEPT ![p] = f.proof]
                  /\ Goto(p, After("gen_proof"))
               \/ /\ ~AssertAccept(o)
                  /\ Goto(p, OnPanic(pc[p]))
                  /\ UNCHANGED proof
    /\ UNCHANGED <<srs, srsInits, mode, circuit, instances, pk, deployment_code, gp, ev>>

\* ----------------------------------------------------------- evm_verify
EncodeCalldataStep(p) ==
    /\ pc[p] = "encode_calldata"
    /\ LET frame == [deployment_code |-> deployment_code[p],
                     instances |-> <<instances[p]>>,
                     proof |-> proof[p],
                     calldata |-> EncodeCalldata(<<instances[p]>>, proof[p]),
                     verifier |-> None]
       IN  /\ ev' = [ev EXCEPT ![p] = frame]
           /\ Record(p, Event("encode_calldata",
                              [instances |-> frame.instances, proof |-> frame.proof],
                              "ok", frame.calldata))
    /\ Goto(p, "deploy")
    /\ UNCHANGED <<srs, srsInits, mode, circuit, instances, pk, deployment_code, proof, gp>>

Deploy(p) ==
    /\ pc[p] = "deploy"
    /\ LET args == [code |-> ev[p].deployment_code]
           address == [code |-> ev[p].deployment_code]
       IN  \/ /\ ev' = [ev EXCEPT ![p].verifier = address]
              /\ Record(p, Event("deploy", args, "ok", address))
              /\ Goto(p, "call_raw")
           \/ /\ Record(p, Event("deploy", args, "no_address", None))
              /\ Goto(p, OnPanic(pc[p]))
              /\ UNCHANGED ev
    /\ UNCHANGED <<srs, srsInits, mode, circuit, instances, pk, deployment_code, proof, gp>>

CallRaw(p) ==
    /\ pc[p] = "call_raw"
    /\ \E reverted \in BOOLEAN :
        /\ Record(p, Event("call_raw",
                           [verifier |-> ev[p].verifier, calldata |-> ev[p].calldata],
                           IF reverted THEN "reverted" ELSE "ok", None))
        /\ \/ Success(reverted) /\ Goto(p, After("evm_verify"))
           \/ ~Success(reverted) /\ Goto(p, OnPanic(pc[p]))
    /\ UNCHANGED <<srs, srsInits, mode, circuit, instances, pk, deployment_code, proof, gp, ev>>

Next ==
    \E p \in Invocations :
        \/ \E t \in ProofTuples : VerifyInsideSnarkMock(p, t)
        \/ MockOnly(p)
        \/ \E t \in ProofTuples : VerifyInsideSnark(p, t)
        \/ MockProverRun(p)
        \/ SrsInitStart(p)
        \/ SrsInitFinish(p)
        \/ SrsPoisoned(p)
        \/ GenPk(p)
        \/ GenEvmVerifier(p)
        \/ GenProofMockProver(p)
        \/ CreateProof(p)
        \/ VerifyProof(p)
        \/ EncodeCalldataStep(p)
        \/ Deploy(p)
        \/ CallRaw(p)

Spec == Init /\ [][Next]_vars


\* ------------------------------------------------------------ properties
Stages(p) == [i \in DOMAIN log[p] |-> log[p][i].stage]

Reached(p, stages) == \E i \in DOMAIN log[p] : log[p][i].stage \in stages

OkOutcomes == {"ok", "satisfied", "accept"}

Failed(e) == e.out \notin OkOutcomes

Tampered(p) == circuit[p] # None /\ circuit[p].instances # circuit[p].proof.binds

\* C1: in full pipeline mode, when the orchestrator's Mock Checker run reports
\* a violation the invocation is aborted and gen_pk, gen_evm_verifier,
\* create_proof and evm_verify (encode, deploy, call) are never reached; a
\* violation reported by any Mock Checker run aborts before create_proof and
\* evm_verify.
C1_MockViolationGatesPipeline ==
    \A p \in Invocations : mode[p] = "full" =>
        \A i \in DOMAIN log[p] :
            (log[p][i].stage = "mock_prover" /\ log[p][i].out = "violated") =>
                /\ pc[p] = "aborted"
                /\ ~Reached(p, {"create_proof", "verify_proof", "encode_calldata",
                                "deploy", "call_raw"})
                /\ proof[p] = None /\ ev[p] = None
                /\ log[p][i].args.k = OrchestratorMockK =>
                      /\ ~Reached(p, {"gen_pk", "gen_evm_verifier", "gen_srs", "SRS"})
                      /\ pk[p] = None /\ deployment_code[p] = None /\ gp[p] = None

\* C1 witness: a full-mode run on a triple with one public input incremented
\* whose first Mock Checker run reported a violation.
C1_Witness ==
    \E p \in Invocations :
        /\ mode[p] = "full" /\ Tampered(p)
        /\ log[p] # <<>> /\ log[p][1].out = "violated"
        /\ pc[p] = "aborted"

\* C2 as stated: a successful full run goes Mock Checker, Key Manager, Prover,
\* Verifier Compiler, Calldata Encoder, Execution Harness.
C2_Original ==
    \A p \in Invocations : (mode[p] = "full" /\ pc[p] = "done") =>
        Stages(p) = <<"mock_prover", "gen_pk", "mock_prover", "create_proof",
                      "verify_proof", "gen_evm_verifier", "encode_calldata",
                      "deploy", "call_raw">>

\* C2 amended: a successful full run goes Mock Checker, Key Manager, Verifier
\* Compiler, Prover (Mock Checker again, create_proof, verify_proof), Calldata
\* Encoder, Execution Harness; the Prover never starts before the Verifier
\* Compiler has returned.
C2_CompileBeforeProve ==
    \A p \in Invocations : mode[p] = "full" =>
        /\ pc[p] = "done" =>
              Stages(p) = <<"mock_prover", "gen_pk", "gen_evm_verifier", "mock_prover",
                            "create_proof", "verify_proof", "encode_calldata",
                            "deploy", "call_raw">>
        /\ \A i \in DOMAIN log[p] : log[p][i].stage = "create_proof" =>
              \E j \in 1..(i - 1) :
                  log[p][j].stage = "gen_evm_verifier" /\ log[p][j].out = "ok"

\* C2 witness: a full run that returned normally.
C2_Witness == \E p \in Invocations : mode[p] = "full" /\ pc[p] = "done"

\* C3: a proof returned by gen_proof was accepted by verify_proof on the same
\* params, the vk of the same pk and the same instances that create_proof
\* used; when verify_proof errs or rejects, no proof is returned.
C3_ReturnedProofSelfVerified ==
    \A p \in Invocations :
        /\ proof[p] # None =>
              \E i \in DOMAIN log[p] : i > 1 /\
                  LET v == log[p][i]
                      c == log[p][i - 1]
                  IN  /\ v.stage = "verify_proof" /\ v.out = "accept"
                      /\ c.stage = "create_proof" /\ c.out = "ok"
                      /\ c.ret = proof[p]
                      /\ v.args.proof = proof[p]
                      /\ v.args.params = c.args.params
                      /\ v.args.vk = GetVk(c.args.pk)
                      /\ v.args.instances = c.args.instances
        /\ (\E i \in DOMAIN log[p] :
                log[p][i].stage = "verify_proof" /\ log[p][i].out # "accept") =>
              proof[p] = None /\ pc[p] = "aborted"

\* C3 witness: one invocation holds a returned proof, another was aborted by a
\* rejecting self-verification.
C3_Witness ==
    /\ \E p \in Invocations : proof[p] # None
    /\ \E q \in Invocations : log[q] # <<>> /\
          LET e == log[q][Len(log[q])]
          IN  e.stage = "verify_proof" /\ e.out = "reject"

\* C4: a full run returns normally only after deploy gave an address for the
\* compiled code and call_raw on the encoded calldata did not revert; a failed
\* deployment or a reverted call leaves the run aborted.
C4_SuccessNeedsHarnessAcceptance ==
    \A p \in Invocations : mode[p] = "full" =>
        /\ pc[p] = "done" =>
              /\ Len(log[p]) >= 2
              /\ LET c == log[p][Len(log[p])]
                     d == log[p][Len(log[p]) - 1]
                 IN  /\ c.stage = "call_raw" /\ c.out = "ok"
                     /\ d.stage = "deploy" /\ d.out = "ok"
                     /\ d.args.code = deployment_code[p]
                     /\ c.args.verifier = d.ret
                     /\ c.args.calldata = EncodeCalldata(<<instances[p]>>, proof[p])
        /\ \A i \in DOMAIN log[p] :
              (\/ log[p][i].stage = "deploy" /\ log[p][i].out = "no_address"
               \/ log[p][i].stage = "call_raw" /\ log[p][i].out = "reverted") =>
                  pc[p] = "aborted"

\* C4 witness: one full run returned normally and another ended on a revert.
C4_Witness ==
    /\ \E p \in Invocations : mode[p] = "full" /\ pc[p] = "done"
    /\ \E q \in Invocations : log[q] # <<>> /\ log[q][Len(log[q])].out = "reverted"

\* C5: constraints-only mode makes one Mock Checker call and nothing else: no
\* SRS access, no key, no proof, no compiled verifier, no deployment or call.
C5_MockModeOnlyChecks ==
    \A p \in Invocations : mode[p] = "mock" =>
        /\ pc[p] \in {"mock_only", "done", "aborted"}
        /\ Len(log[p]) <= 1
        /\ \A i \in DOMAIN log[p] : log[p][i].stage = "mock_prover"
        /\ pk[p] = None /\ deployment_code[p] = None /\ proof[p] = None
        /\ gp[p] = None /\ ev[p] = None
        /\ ~(srs.state = "running" /\ srs.owner = p)

\* C5 witness: one constraints-only run was satisfied and returned, another
\* was violated and aborted.
C5_Witness ==
    /\ \E p \in Invocations :
          mode[p] = "mock" /\ pc[p] = "done" /\ log[p][1].out = "satisfied"
    /\ \E q \in Invocations :
          mode[q] = "mock" /\ pc[q] = "aborted" /\ log[q][1].out = "violated"

ParamsUsers == {"gen_pk", "gen_evm_verifier", "create_proof", "verify_proof"}

ParamsObserved == {At(c).args.params : c \in {d \in Calls : At(d).stage \in ParamsUsers}}

\* C6: gen_srs is entered at most once, not before some full-mode invocation
\* has passed its Mock Checker gate and so reached a statement that uses SRS,
\* and every stage of every invocation is handed the one value it produced.
C6_SrsInitialisedOnce ==
    /\ srsInits <= 1
    /\ Cardinality(ParamsObserved) <= 1
    /\ srs.state = "ready" => ParamsObserved \subseteq {srs.value}
    /\ srs.state # "ready" => ParamsObserved = {}
    /\ srsInits = 1 =>
          \E p \in Invocations :
              mode[p] = "full" /\ log[p] # <<>> /\ log[p][1].out = "satisfied"

\* C6 witness: two invocations running at once have both been handed the SRS
\* after a single initialisation.
C6_Witness ==
    /\ srsInits = 1
    /\ \E p, q \in Invocations :
          /\ p # q
          /\ pc[p] = "create_proof" /\ pc[q] = "gen_evm_verifier"
          /\ Reached(q, {"gen_pk"})

C8_NoRetryNoRecovery ==
    \A p \in Invocations :
        /\ \A i \in DOMAIN log[p] :
              Failed(log[p][i]) => i = Len(log[p]) /\ pc[p] = "aborted"
        /\ pc[p] = "aborted" => log[p] # <<>> /\ Failed(log[p][Len(log[p])])
        /\ \A i, j \in DOMAIN log[p] :
              (log[p][i].stage = log[p][j].stage /\ log[p][i].args = log[p][j].args)
                  => i = j
        /\ \A i \in DOMAIN log[p] : log[p][i].stage = "deploy" =>
              \E j \in 1..(i - 1) :
                  /\ log[p][j].stage = "gen_evm_verifier" /\ log[p][j].out = "ok"
                  /\ log[p][j].ret = log[p][i].args.code

\* C8 witness: an invocation aborted by a failed compilation, with nothing
\* deployed.
C8_Witness ==
    \E p \in Invocations :
        /\ pc[p] = "aborted"
        /\ log[p][Len(log[p])].stage = "gen_evm_verifier"
        /\ ev[p] = None

\* C9: every create_proof call directly follows, in the same gen_proof call,
\* a satisfied Mock Checker run on the same circuit and instances at
\* k = params.k() of the params create_proof is given; a Mock Checker run that
\* is not satisfied is followed by no create_proof.
C9_ProverRechecksAtParamsK ==
    \A p \in Invocations : \A i \in DOMAIN log[p] :
        /\ log[p][i].stage = "create_proof" =>
              /\ i > 1
              /\ LET m == log[p][i - 1]
                     c == log[p][i]
                 IN  /\ m.stage = "mock_prover" /\ m.out = "satisfied"
                     /\ m.args.k = ParamsK(c.args.params)
                     /\ m.args.circuit = c.args.circuit
                     /\ m.args.instances = c.args.instances
        /\ (log[p][i].stage = "mock_prover" /\ log[p][i].out # "satisfied") =>
              \A j \in DOMAIN log[p] : j > i => log[p][j].stage # "create_proof"

\* C9 witness: create_proof has run after the orchestrator checked at k = 22
\* and gen_proof checked again at k = 23.
C9_Witness ==
    \E p \in Invocations : \E i \in DOMAIN log[p] :
        /\ log[p][i].stage = "create_proof"
        /\ log[p][1].args.k = OrchestratorMockK
        /\ log[p][i - 1].args.k = SrsK

\* C10: what evm_verify is handed fits together: the code was compiled from
\* the params and the vk of the pk that produced the proof, with one instance
\* count equal to the length of the instance vector, and the calldata encodes
\* the instance vector and proof bytes that verify_proof accepted.
C10_HarnessArtefactsConsistent ==
    \A p \in Invocations : ev[p] # None =>
        LET f == ev[p]
            created == {i \in DOMAIN log[p] :
                          log[p][i].stage = "create_proof" /\ log[p][i].ret = f.proof}
            compiled == {i \in DOMAIN log[p] :
                          log[p][i].stage = "gen_evm_verifier"
                              /\ log[p][i].ret = f.deployment_code}
            verified == {i \in DOMAIN log[p] :
                          log[p][i].stage = "verify_proof" /\ log[p][i].out = "accept"}
        IN  /\ Cardinality(created) = 1 /\ Cardinality(compiled) = 1
            /\ Cardinality(verified) = 1
            /\ \A i \in created : \A j \in compiled : \A k \in verified :
                  LET c == log[p][i].args
                      g == log[p][j].args
                      v == log[p][k].args
                  IN  /\ g.params = c.params
                      /\ g.vk = GetVk(c.pk)
                      /\ Len(f.instances) = 1
                      /\ g.num_instance = <<Len(f.instances[1])>>
                      /\ f.instances = c.instances
                      /\ v.proof = f.proof /\ v.instances = f.instances
                      /\ f.calldata = EncodeCalldata(v.instances, v.proof)
                      /\ f.instances[1] = circuit[p].instances

\* C10 witness: evm_verify has deployed the code and is about to call it.
C10_Witness == \E p \in Invocations : pc[p] = "call_raw" /\ ev[p].verifier # None

====
